---- MODULE Spec2Model ----
(***************************************************************************)
(* Model of backend/utils.py of the recipe chatbot: the module constants   *)
(* SYSTEM_PROMPT and MODEL_NAME and the wrapper get_agent_response around  *)
(* litellm.completion.                                                     *)
(*                                                                         *)
(* Python strings are sequences of one-character strings, Python lists are *)
(* objects of a heap addressed by reference (so aliasing of the caller's   *)
(* list is visible), Python dicts are records whose DOMAIN is the set of   *)
(* keys present.                                                           *)
(***************************************************************************)
EXTENDS Integers, Sequences, FiniteSets, TLC

VARIABLES SYSTEM_PROMPT, MODEL_NAME, pc, heap, messages, arg,
          current_messages, calls, completion, raised,
          assistant_reply_content, updated_messages, outcome,
          history, turns

vars == <<SYSTEM_PROMPT, MODEL_NAME, pc, heap, messages, arg,
          current_messages, calls, completion, raised,
          assistant_reply_content, updated_messages, outcome,
          history, turns>>

\* ---- bounds -------------------------------------------------------------
MaxHist == 2
MaxReply == 3
MaxTurns == 2

\* ---- values -------------------------------------------------------------
Months == {"October", "November"}

Whitespace == {" ", "\n", "\t"}

ReplyAlphabet == {"a", " ", "\n"}

Roles == {"system", "user", "assistant"}

UserContents == {<<"h", "i">>}

ModelNames == {"gpt-4o-mini", "gpt-4o"}

ProviderErrors == {"AuthenticationError", "RateLimitError"}

SeqsUpTo(S, n) == UNION {[1..k -> S] : k \in 0..n}

\* textwrap.dedent of the prompt template, with the month name of the
\* moment the module is imported
Template(month) == <<"Role", "Rules", month, "Spain", "Format", "Think step by step">>

\* contents of the caller's messages: the prompt itself or a text of its own
Contents == {SYSTEM_PROMPT} \cup UserContents

Messages == [role : Roles, content : Contents]

Histories == SeqsUpTo(Messages, MaxHist)

Replies == SeqsUpTo(ReplyAlphabet, MaxReply)

\* ---- Python values of the provider's response -----------------------------
PyStr(s) == [type |-> "str", val |-> s]

PyNone == [type |-> "NoneType", val |-> <<>>]

PyInt == [type |-> "int", val |-> <<>>]

Choice(c) == [message |-> [role |-> "assistant", content |-> c]]

Responses ==
    {[id |-> "cmpl"]}
    \cup {[choices |-> <<>>]}
    \cup {[choices |-> <<[index |-> 0]>>]}
    \cup {[choices |-> <<[message |-> [role |-> "assistant"]]>>]}
    \cup {[choices |-> <<Choice(PyNone)>>], [choices |-> <<Choice(PyInt)>>]}
    \cup {[choices |-> <<Choice(PyStr(r))>>] : r \in Replies}
    \cup {[choices |-> <<Choice(PyStr(r)), Choice(PyStr(<<"b">>))>>] : r \in {<<>>, <<" ", "a">>}}

NoCompletion == [absent |-> TRUE]

NoOutcome == [kind |-> "none", exc |-> "", ref |-> 0]

\* ---- str.strip() ----------------------------------------------------------
RECURSIVE lstrip(_)
lstrip(s) == IF s # <<>> /\ Head(s) \in Whitespace THEN lstrip(Tail(s)) ELSE s

RECURSIVE rstrip(_)
rstrip(s) ==
    IF s # <<>> /\ s[Len(s)] \in Whitespace
    THEN rstrip(SubSeq(s, 1, Len(s) - 1))
    ELSE s

\* a strip that forgets the right end
strip_LeftOnly(s) == lstrip(s)

strip(s) == rstrip(lstrip(s))

\* ---- get_agent_response ---------------------------------------------------
\* line 70 without its second disjunct
NeedsSystemPrompt_OnlyEmpty(msgs) == msgs = <<>>

\* line 70 without any test
NeedsSystemPrompt_Always(msgs) == TRUE

\* line 70
NeedsSystemPrompt(msgs) == msgs = <<>> \/ msgs[1].role # "system"

\* line 71 with the prompt left out
SystemMessage_Blank == [role |-> "system", content |-> <<>>]

\* line 71
SystemMessage == [role |-> "system", content |-> SYSTEM_PROMPT]

\* line 87 with the wrong role
AssistantMessage_AsUser(c) == [role |-> "user", content |-> c]

\* line 87
AssistantMessage(c) == [role |-> "assistant", content |-> c]

Init ==
    /\ \E m \in Months : SYSTEM_PROMPT = Template(m)
    /\ MODEL_NAME \in ModelNames
    /\ pc = "idle"
    /\ heap = <<>>
    /\ messages = 0
    /\ arg = <<>>
    /\ current_messages = 0
    /\ calls = <<>>
    /\ completion = NoCompletion
    /\ raised = ""
    /\ assistant_reply_content = <<>>
    /\ updated_messages = 0
    /\ outcome = NoOutcome
    /\ history = <<>>
    /\ turns = 0

\* entry into get_agent_response with the caller's list h
Enter(h) ==
    /\ pc = "idle"
    /\ pc' = "prepare"
    /\ heap' = <<h>>
    /\ messages' = 1
    /\ arg' = h
    /\ current_messages' = 0
    /\ calls' = <<>>
    /\ completion' = NoCompletion
    /\ raised' = ""
    /\ assistant_reply_content' = <<>>
    /\ updated_messages' = 0
    /\ outcome' = NoOutcome
    /\ UNCHANGED <<SYSTEM_PROMPT, MODEL_NAME>>

\* a caller passing any history
Invoke ==
    /\ \E h \in Histories : Enter(h)
    /\ UNCHANGED <<history, turns>>

\* a conversation: the caller appends one user message to the history it
\* got back last and calls again
Turn ==
    /\ turns < MaxTurns
    /\ \E c \in UserContents : Enter(Append(history, [role |-> "user", content |-> c]))
    /\ UNCHANGED <<history, turns>>

\* lines 70-73
Prepare ==
    /\ pc = "prepare"
    /\ IF NeedsSystemPrompt(heap[messages])
       THEN /\ heap' = Append(heap, <<SystemMessage>> \o heap[messages])
            /\ current_messages' = Len(heap) + 1
       ELSE /\ heap' = heap
            /\ current_messages' = messages
    /\ pc' = "call"
    /\ UNCHANGED <<SYSTEM_PROMPT, MODEL_NAME, messages, arg, calls, completion,
                   raised, assistant_reply_content, updated_messages, outcome,
                   history, turns>>

\* lines 76-79 wrapped in an except clause that goes on with an empty reply
Complete_Swallow ==
    /\ pc = "call"
    /\ calls' = Append(calls, [model |-> MODEL_NAME,
                               ref |-> current_messages,
                               messages |-> heap[current_messages]])
    /\ \/ \E e \in ProviderErrors :
            /\ raised' = e
            /\ pc' = "append"
            /\ UNCHANGED <<completion, outcome>>
       \/ \E r \in Responses :
            /\ completion' = r
            /\ pc' = "extract"
            /\ UNCHANGED <<raised, outcome>>
    /\ UNCHANGED <<SYSTEM_PROMPT, MODEL_NAME, heap, messages, arg,
                   current_messages, assistant_reply_content, updated_messages,
                   history, turns>>

\* lines 76-79 with one retry after a failure
Complete_Retry ==
    /\ pc = "call"
    /\ LET call == [model |-> MODEL_NAME,
                    ref |-> current_messages,
                    messages |-> heap[current_messages]]
       IN \/ \E e \in ProviderErrors :
               /\ calls' = calls \o <<call, call>>
               /\ raised' = e
               /\ outcome' = [kind |-> "raise", exc |-> e, ref |-> 0]
               /\ pc' = "done"
               /\ UNCHANGED completion
          \/ \E r \in Responses :
               /\ calls' = Append(calls, call)
               /\ completion' = r
               /\ pc' = "extract"
               /\ UNCHANGED <<raised, outcome>>
    /\ UNCHANGED <<SYSTEM_PROMPT, MODEL_NAME, heap, messages, arg,
                   current_messages, assistant_reply_content, updated_messages,
                   history, turns>>

\* lines 76-79: the call either raises or returns a response
Complete ==
    /\ pc = "call"
    /\ calls' = Append(calls, [model |-> MODEL_NAME,
                               ref |-> current_messages,
                               messages |-> heap[current_messages]])
    /\ \/ \E e \in ProviderErrors :
            /\ raised' = e
            /\ outcome' = [kind |-> "raise", exc |-> e, ref |-> 0]
            /\ pc' = "done"
            /\ UNCHANGED completion
       \/ \E r \in Responses :
            /\ completion' = r
            /\ pc' = "extract"
            /\ UNCHANGED <<raised, outcome>>
    /\ UNCHANGED <<SYSTEM_PROMPT, MODEL_NAME, heap, messages, arg,
                   current_messages, assistant_reply_content, updated_messages,
                   history, turns>>

\* the subscripts of lines 82-83 with a content that is not a string read
\* as the empty string
SubscriptError_Lenient(r) ==
    IF "choices" \notin DOMAIN r THEN "KeyError"
    ELSE IF Len(r["choices"]) = 0 THEN "IndexError"
    ELSE IF "message" \notin DOMAIN r["choices"][1] THEN "KeyError"
    ELSE IF "content" \notin DOMAIN r["choices"][1]["message"] THEN "KeyError"
    ELSE ""

\* the exception of completion["choices"][0]["message"]["content"].strip(),
\* "" when the expression evaluates
SubscriptError(r) ==
    IF "choices" \notin DOMAIN r THEN "KeyError"
    ELSE IF Len(r["choices"]) = 0 THEN "IndexError"
    ELSE IF "message" \notin DOMAIN r["choices"][1] THEN "KeyError"
    ELSE IF "content" \notin DOMAIN r["choices"][1]["message"] THEN "KeyError"
    ELSE IF r["choices"][1]["message"]["content"].type # "str" THEN "AttributeError"
    ELSE ""

\* lines 81-84
Extract ==
    /\ pc = "extract"
    /\ IF SubscriptError(completion) # ""
       THEN /\ outcome' = [kind |-> "raise", exc |-> SubscriptError(completion), ref |-> 0]
            /\ pc' = "done"
            /\ UNCHANGED assistant_reply_content
       ELSE /\ assistant_reply_content' =
                   strip(completion["choices"][1]["message"]["content"].val)
            /\ pc' = "append"
            /\ UNCHANGED outcome
    /\ UNCHANGED <<SYSTEM_PROMPT, MODEL_NAME, heap, messages, arg,
                   current_messages, calls, completion, raised,
                   updated_messages, history, turns>>

\* lines 87-88 with list.append in place of the concatenation
AppendReply_InPlace ==
    /\ pc = "append"
    /\ heap' = [heap EXCEPT ![current_messages] =
                   Append(@, AssistantMessage(assistant_reply_content))]
    /\ updated_messages' = current_messages
    /\ outcome' = [kind |-> "return", exc |-> "", ref |-> current_messages]
    /\ pc' = "done"
    /\ UNCHANGED <<SYSTEM_PROMPT, MODEL_NAME, messages, arg, current_messages,
                   calls, completion, raised, assistant_reply_content,
                   history, turns>>

\* lines 87-88
AppendReply ==
    /\ pc = "append"
    /\ heap' = Append(heap, heap[current_messages]
                              \o <<AssistantMessage(assistant_reply_content)>>)
    /\ updated_messages' = Len(heap) + 1
    /\ outcome' = [kind |-> "return", exc |-> "", ref |-> Len(heap) + 1]
    /\ pc' = "done"
    /\ UNCHANGED <<SYSTEM_PROMPT, MODEL_NAME, messages, arg, current_messages,
                   calls, completion, raised, assistant_reply_content,
                   history, turns>>

\* the frame of the finished call is gone
Leave ==
    /\ pc = "done"
    /\ pc' = "idle"
    /\ heap' = <<>>
    /\ messages' = 0
    /\ arg' = <<>>
    /\ current_messages' = 0
    /\ calls' = <<>>
    /\ completion' = NoCompletion
    /\ raised' = ""
    /\ assistant_reply_content' = <<>>
    /\ updated_messages' = 0
    /\ outcome' = NoOutcome
    /\ UNCHANGED <<SYSTEM_PROMPT, MODEL_NAME>>

\* control is back in the caller
Finish ==
    /\ Leave
    /\ UNCHANGED <<history, turns>>

\* control is back in the conversation's caller, which keeps the returned
\* history when there is one
TurnFinish ==
    /\ Leave
    /\ IF outcome.kind = "return"
       THEN /\ history' = heap[outcome.ref]
            /\ turns' = turns + 1
       ELSE UNCHANGED <<history, turns>>

Next == Invoke \/ Prepare \/ Complete \/ Extract \/ AppendReply \/ Finish

Spec == Init /\ [][Next]_vars

NextConv == Turn \/ Prepare \/ Complete \/ Extract \/ AppendReply \/ TurnFinish

SpecConv == Init /\ [][NextConv]_vars

\* ---- properties -----------------------------------------------------------
Returned == pc = "done" /\ outcome.kind = "return"

Result == heap[outcome.ref]

Called == pc \in {"extract", "append", "done"}

PromptMessage == [role |-> "system", content |-> SYSTEM_PROMPT]

StartsWithSystem(h) == h # <<>> /\ h[1].role = "system"

Working(h) == IF StartsWithSystem(h) THEN h ELSE <<PromptMessage>> \o h

CountRole(h, r) == Cardinality({i \in DOMAIN h : h[i].role = r})

RawReply == completion["choices"][1]["message"]["content"].val

HasReplyPath(r) ==
    /\ "choices" \in DOMAIN r
    /\ Len(r["choices"]) > 0
    /\ "message" \in DOMAIN r["choices"][1]
    /\ "content" \in DOMAIN r["choices"][1]["message"]
    /\ r["choices"][1]["message"]["content"].type = "str"

\* C1: when the history passed in is empty or does not start with a system
\* message, the returned history starts with the system message whose content
\* is SYSTEM_PROMPT.
Thm_C1 == (Returned /\ ~StartsWithSystem(arg)) => Result[1] = PromptMessage

Wit_C1 ==
    /\ Returned
    /\ arg # <<>>
    /\ arg[1].role = "user"
    /\ Result[1] = PromptMessage

\* C2 as stated: when the history passed in starts with a system message, the
\* returned history holds exactly one system message, at position 0.
Orig_C2 ==
    (Returned /\ StartsWithSystem(arg)) =>
        /\ CountRole(Result, "system") = 1
        /\ Result[1].role = "system"

\* C2: when the history passed in starts with a system message, the call adds
\* no system message: the returned history holds as many system messages as
\* the one passed in, and its element 0 is the element 0 passed in.
Thm_C2 ==
    (Returned /\ StartsWithSystem(arg)) =>
        /\ CountRole(Result, "system") = CountRole(arg, "system")
        /\ Result[1] = arg[1]

Wit_C2 ==
    /\ Returned
    /\ StartsWithSystem(arg)
    /\ Len(arg) = 2
    /\ CountRole(Result, "system") = 1

\* C3: the returned history is the working history with one message appended:
\* one longer, equal to it element by element, and ending in an assistant
\* message.
Thm_C3 ==
    Returned =>
        /\ Len(Result) = Len(Working(arg)) + 1
        /\ \A i \in 1..Len(Working(arg)) : Result[i] = Working(arg)[i]
        /\ Result[Len(Result)].role = "assistant"

Wit_C3 ==
    /\ Returned
    /\ Len(arg) = 2
    /\ Len(Result) = 4

\* C4: when the completion call raises, the call ends by raising that same
\* error and returns no history.
Thm_C4 ==
    raised # "" =>
        /\ pc = "done"
        /\ outcome = [kind |-> "raise", exc |-> raised, ref |-> 0]
        /\ updated_messages = 0

Wit_C4 ==
    /\ pc = "done"
    /\ raised = "AuthenticationError"
    /\ outcome.kind = "raise"
    /\ arg # <<>>

\* C5: the list passed in keeps its length and elements throughout the call,
\* whether it succeeds or fails, and the list returned is another list.
Thm_C5 ==
    /\ pc # "idle" => heap[messages] = arg
    /\ Returned => outcome.ref # messages

Wit_C5 ==
    /\ Returned
    /\ current_messages = messages
    /\ arg # <<>>
    /\ heap[messages] = arg

\* C6: an invocation calls the provider exactly once, with the working
\* history and the configured model name, and never a second time, also after
\* a failure.
Thm_C6 ==
    /\ Len(calls) <= 1
    /\ Called =>
        /\ Len(calls) = 1
        /\ calls[1].model = MODEL_NAME
        /\ calls[1].messages = Working(arg)

Wit_C6 ==
    /\ pc = "done"
    /\ raised = "RateLimitError"
    /\ Len(calls) = 1
    /\ calls[1].messages = Working(arg)

\* C7: a response without the path choices[0].message.content to a string
\* ends the call in an error, never in a returned history.
Thm_C7 ==
    (Called /\ raised = "" /\ ~HasReplyPath(completion)) =>
        \/ pc = "extract"
        \/ pc = "done" /\ outcome.kind = "raise"

Wit_C7 ==
    /\ pc = "done"
    /\ raised = ""
    /\ ~HasReplyPath(completion)
    /\ outcome.exc = "AttributeError"

\* C8: the content of the appended assistant message is the raw reply without
\* its leading and trailing whitespace, the rest untouched, so it neither
\* begins nor ends with a whitespace character.
Thm_C8 ==
    Returned =>
        LET c == Result[Len(Result)].content
            n == Len(RawReply)
        IN /\ c = <<>> \/ (c[1] \notin Whitespace /\ c[Len(c)] \notin Whitespace)
           /\ \E i \in 0..n :
                /\ i + Len(c) <= n
                /\ SubSeq(RawReply, i + 1, i + Len(c)) = c
                /\ \A k \in (1..i) \cup ((i + Len(c) + 1)..n) :
                      RawReply[k] \in Whitespace

Wit_C8 ==
    /\ Returned
    /\ RawReply = <<" ", "a", "\n">>
    /\ Result[Len(Result)].content = <<"a">>

\* C9 as stated: for every history, also one that starts with a system
\* message of another content, the messages sent to the provider and the
\* returned history start with the system message whose content is
\* SYSTEM_PROMPT.
Orig_C9 ==
    /\ Called => calls[1].messages[1] = PromptMessage
    /\ Returned => Result[1] = PromptMessage

\* C9: the messages sent to the provider and the returned history start with
\* a system message; it is the SYSTEM_PROMPT message when the history passed
\* in is empty or does not start with a system message, and otherwise the
\* caller's own first message, whatever its content.
Thm_C9 ==
    LET first == IF StartsWithSystem(arg) THEN arg[1] ELSE PromptMessage
    IN /\ Called => (calls[1].messages[1] = first /\ first.role = "system")
       /\ Returned => Result[1] = first

Wit_C9 ==
    /\ Returned
    /\ StartsWithSystem(arg)
    /\ arg[1].content # SYSTEM_PROMPT
    /\ Result[1] = arg[1]
    /\ calls[1].messages[1] = arg[1]

\* the shape of a conversation's history after n successful turns
ConvShape(h, n) ==
    /\ Len(h) = 2 * n + 1
    /\ h[1] = PromptMessage
    /\ CountRole(h, "system") = 1
    /\ \A i \in 2..Len(h) : h[i].role = IF i % 2 = 0 THEN "user" ELSE "assistant"

\* C10: in a conversation from the empty history, every returned history has
\* one system message, first and with content SYSTEM_PROMPT, then user and
\* assistant messages in alternation, and length 2n + 1 after n successful
\* turns.
Thm_C10 ==
    /\ turns = 0 => history = <<>>
    /\ turns > 0 => ConvShape(history, turns)
    /\ Returned => ConvShape(Result, turns + 1)

Wit_C10 ==
    /\ pc = "idle"
    /\ turns = 2
    /\ Len(history) = 5

====
